---- MODULE Spec2Model ----
(***************************************************************************)
(* Model of the DynamoDB -> S3 (Bronze) -> Iceberg (Silver) -> aggregates  *)
(* (Gold) pipeline.                                                        *)
(*                                                                         *)
(*   Spec      Bronze batch writes interleaved with sequential Silver runs *)
(*             (src/lambda/bronze/handler.py, src/lambda/silver/handler.py)*)
(*   SpecGold  the Gold refresh handler over given Silver tables           *)
(*             (src/lambda/gold/handler.py)                                *)
(*                                                                         *)
(* Time is an integer clock; one tick is the resolution of every timestamp *)
(* (S3 LastModified, key timestamp, run_start).  The look-back constants   *)
(* of get_watermark are counted in ticks.                                  *)
(***************************************************************************)
EXTENDS Integers, Sequences, FiniteSets, TLC

\* ---------------------------------------------------------------- bounds
MaxEvents == 4        \* events in one behaviour: change records captured, clock
                      \* ticks, failed external calls (S3, Athena, DynamoDB) and
                      \* Silver runs started

MaxDay == 4           \* SpecGold: CURRENT_DATE runs over 0..MaxDay
MaxGoldEvents == 5    \* SpecGold: events in one behaviour: rows merged into the
                      \* silver tables, changes of date, Gold invocations

\* ------------------------------------------------------- program constants
HoursFirstRun == 24   \* get_watermark: no watermark object yet
HoursCorrupt == 1     \* get_watermark: watermark unreadable or corrupt
REFRESH_DAYS == 3     \* Gold: days refreshed on each run (default)
PollLimit == 120      \* execute_athena_query: status polls before it gives up

BRONZE_TABLES == <<"orders", "products", "customers">>
SilverTables == <<"orders", "products", "customers">>
Tables == {"orders", "products", "customers"}

PKs == {"k1", "k2"}
BatchIds == {1, 2, 3}
NoCust == "none"
CustIds == {"c1"}
\* The CustomerID attribute of the order with a given OrderID: an order keeps
\* its customer over all its changes; order k2 has no CustomerID.
OrderCust(pk) == IF pk = "k1" THEN "c1" ELSE NoCust
NoItem == [Name |-> "?", Region |-> "?", present |-> FALSE]
CustItems == {[Name |-> "Ann", Region |-> "US-East", present |-> TRUE]}
QueryStates == {"SUCCEEDED", "FAILED", "TIMEOUT"}

VARIABLES
    clock,          \* datetime.utcnow()
    bronze,         \* Bronze batch objects in S3, in the order they were written
    source,         \* the items that exist in the source DynamoDB tables
    received,       \* number of stream records the Bronze handler has received
    blast,          \* the last Bronze invocation (for stating properties)
    customers,      \* reference customer store (DynamoDB CUSTOMERS_TABLE)
    wm,             \* the object silver/watermark.json
    target,         \* the Iceberg tables <t>_enriched, each a sequence of rows
    catalog,        \* the Iceberg tables that exist in the catalog
    artifacts,      \* the staging object and the temporary table of the latest
                    \* merge_to_iceberg invocation: which of them exist
    pc,             \* position of the Silver lambda_handler
    runNo,          \* number of Silver runs started
    watermark,      \* local of lambda_handler
    run_start,      \* local of lambda_handler
    new_files,      \* local of lambda_handler: indexes into bronze, scan order
    bronze_records, \* local of lambda_handler
    silver_data,    \* local of lambda_handler
    cur,            \* position of the merge loop in SilverTables
    result,         \* what the last run returned or raised
    faults,         \* number of external calls that have failed so far
    hist,           \* history of the current run (for stating properties)
    mergedAll,      \* history: per table, the (pk, val) of every record handed
                    \* to a merge_to_iceberg call whose MERGE succeeded
    today,          \* CURRENT_DATE of the query engine, a day number
    dateChanges,    \* number of times the date has changed (SpecGold)
    invocations,    \* Gold lambda_handler invocations so far; the invocation
                    \* number stands for CURRENT_TIMESTAMP in its queries
    orders_enriched,   \* silver table orders_enriched, the columns Gold reads
    products_enriched, \* silver table products_enriched, the columns Gold reads
    changes,        \* rows merged into the silver tables so far (SpecGold)
    gold,           \* the three aggregate tables, each a bag of rows
    gold_catalog,   \* the aggregate tables that exist in the Glue catalog
    gpc,            \* position of the Gold lambda_handler
    gresult,        \* statusCode the last Gold invocation returned
    ghist,          \* history of the Gold refreshes (for stating properties)
    qpc,            \* position of one execute_athena_query call (SpecQuery)
    polls,          \* get_query_execution calls of the current call
    qstate,         \* the query state the last poll returned
    submits,        \* start_query_execution calls of the current call
    qresult,        \* how the call ended: returned the query id, or raised
    effects,        \* executions of the current call's statement that the engine
                    \* has completed
    other           \* SpecOverlap: the second of two concurrent invocations of
                    \* the Silver lambda_handler: its position and its locals
                    \* while the first one is the one taking steps

silverVars == <<clock, bronze, source, received, blast, customers, wm, target, catalog, artifacts,
                pc, runNo, watermark, run_start, new_files,
                bronze_records, silver_data, cur, result, faults, hist,
                mergedAll>>

bronzeVars == <<bronze, source, received, blast>>
storeVars == <<target, catalog, artifacts>>
localVars == <<watermark, run_start, new_files, bronze_records, silver_data, cur>>
runVars == <<pc, runNo, localVars, result, faults>>
histVars == <<hist, mergedAll>>

goldVars == <<today, dateChanges, invocations, orders_enriched, products_enriched, changes,
              gold, gold_catalog, gpc, gresult, ghist>>

queryVars == <<qpc, polls, qstate, submits, qresult, effects>>

overlapVars == <<other>>

nonSilverVars == <<goldVars, queryVars, overlapVars>>
nonGoldVars == <<silverVars, queryVars, overlapVars>>
nonQueryVars == <<silverVars, goldVars, overlapVars>>

vars == <<silverVars, goldVars, queryVars, overlapVars>>

\* -------------------------------------------------------------- helpers
Range(s) == {s[i] : i \in 1..Len(s)}

RECURSIVE Concat(_)
Concat(ss) == IF ss = <<>> THEN <<>> ELSE Head(ss) \o Concat(Tail(ss))

Max(S) == CHOOSE x \in S : \A y \in S : y <= x

\* Sequences over S of length 1..n
SeqsUpTo(S, n) == UNION {[1..k -> S] : k \in 1..n}

\* ------------------------------------------------------------ Bronze
CapturedCount == Len(Concat([i \in 1..Len(bronze) |-> bronze[i].recs]))

\* The TotalAmount attribute of the order with a given OrderID, as the stream
\* carries it: a DynamoDB number, which is a decimal string.
OrderAmountN(pk) == IF pk = "k1" THEN "42.50" ELSE "7"
NoAmount == "n/a"

\* The double that Python's float() makes of a decimal string (named by its
\* repr): different strings of one number give one double.
Double(n) == IF n \in {"42.50", "42.5"} THEN "42.5"
             ELSE IF n \in {"7", "7.0"} THEN "7.0"
             ELSE "0.0"

\* flatten_dynamodb_item on a number attribute: float(value['N'])
flatten_number(n) == Double(n)

\* The changes of one table that reach one invocation through its stream, in
\* order: a put or a delete of an item, or a record that is not a stream record
\* of the expected shape (it lacks eventName, eventSourceARN or dynamodb).
Changes ==
    [pk : PKs, op : {"put", "delete"}] \cup {[pk |-> "k1", op |-> "bad"]}

\* Whether the item of change i exists just before the change.
ExistsBefore(table, chs, i) ==
    LET prior == {j \in 1..(i-1) : chs[j].pk = chs[i].pk /\ chs[j].op # "bad"}
    IN  IF prior = {} THEN <<table, chs[i].pk>> \in source
        ELSE chs[Max(prior)].op = "put"

\* Only an item that exists is deleted.
ValidChanges(table, chs) ==
    \A i \in 1..Len(chs) : chs[i].op = "delete" => ExistsBefore(table, chs, i)

\* event['Records'] for the changes: a put is an INSERT or a MODIFY with the
\* NewImage, a delete is a REMOVE without one.
StreamRecords(table, chs) ==
    [i \in 1..Len(chs) |->
        [table      |-> table,
         pk         |-> chs[i].pk,
         wellFormed |-> chs[i].op # "bad",
         eventName  |-> IF chs[i].op = "delete" THEN "REMOVE"
                        ELSE IF chs[i].op = "bad" THEN "?"
                        ELSE IF ExistsBefore(table, chs, i) THEN "MODIFY" ELSE "INSERT",
         hasImage   |-> chs[i].op = "put",
         TotalAmount |-> IF table = "orders" THEN OrderAmountN(chs[i].pk)
                         ELSE NoAmount]]

SourceAfter(table, chs) ==
    LET touched == {chs[i].pk : i \in {j \in 1..Len(chs) : chs[j].op # "bad"}}
        lastOp(pk) == chs[Max({j \in 1..Len(chs) :
                                  chs[j].pk = pk /\ chs[j].op # "bad"})].op
    IN  (source \ {<<table, pk>> : pk \in touched})
        \cup {<<table, pk>> : pk \in {k \in touched : lastOp(k) = "put"}}

\* (bug variant: REMOVE records are written like the others)
Skipped_none(r) == FALSE

\* if event_name == 'REMOVE' or 'NewImage' not in record['dynamodb']: continue
Skipped(r) == r.eventName = "REMOVE" \/ ~r.hasImage

\* A record without the expected keys raises KeyError in the loop.
Raises(records) == \E i \in 1..Len(records) : ~records[i].wellFormed

\* The stream records the loop appends to records.
Kept(records) == SelectSeq(records, LAMBDA r : r.wellFormed /\ ~Skipped(r))

\* The object one invocation writes: the kept records, stamped with the capture
\* time, under a key that carries the table, the time and a random batch id.
\* val is the record's payload; it is the record's capture sequence number, so
\* that every captured change is distinguishable and "captured later" is
\* "greater val".
BronzeBatch(table, kept, bid) ==
    [table |-> table, ts |-> clock, bid |-> bid, lm |-> clock,
     recs  |-> [i \in 1..Len(kept) |->
                  [table |-> kept[i].table, pk |-> kept[i].pk,
                   event_name |-> kept[i].eventName,
                   cust |-> IF table = "orders" THEN OrderCust(kept[i].pk) ELSE NoCust,
                   TotalAmount |-> IF kept[i].TotalAmount = NoAmount THEN NoAmount
                                   ELSE flatten_number(kept[i].TotalAmount),
                   val |-> CapturedCount + i, ev |-> clock]]]

\* uuid4().hex[:8]: only the order of the batch ids of one table and one
\* timestamp matters, so the first batch there takes the middle id and a later
\* one any id not in use.
FreeBatchIds(table) ==
    LET used == {bronze[i].bid : i \in {j \in 1..Len(bronze) :
                     bronze[j].table = table /\ bronze[j].ts = clock}}
    IN  IF used = {} THEN {2} ELSE BatchIds \ used

\* The events of the behaviour so far, and what is left of the bound.
Spent == received + clock + faults + runNo
Left == MaxEvents - Spent

NoInvocation == [kept |-> 0, bad |-> FALSE, wrote |-> 0]

\* One invocation of the Bronze handler.  A KeyError leaves the handler before
\* anything is written; without records to write it returns early.
bronze_lambda_handler ==
    /\ Left > 0
    /\ \E table \in Tables :
       \E chs \in SeqsUpTo(Changes, Left) :
       LET records == StreamRecords(table, chs)
           kept == Kept(records)
       IN  /\ ValidChanges(table, chs)
           /\ received' = received + Len(chs)
           /\ source' = SourceAfter(table, chs)
           /\ IF Raises(records) \/ kept = <<>>
              THEN /\ bronze' = bronze
                   /\ blast' = [kept |-> Len(kept), bad |-> Raises(records),
                                wrote |-> 0]
              ELSE /\ \E bid \in FreeBatchIds(table) :
                        bronze' = Append(bronze, BronzeBatch(table, kept, bid))
                   /\ blast' = [kept |-> Len(kept), bad |-> FALSE,
                                wrote |-> Len(kept)]
    /\ UNCHANGED <<clock, customers, wm, storeVars, runVars, histVars>>
    /\ UNCHANGED nonSilverVars

Tick ==
    /\ Left > 0
    /\ clock' = clock + 1
    /\ UNCHANGED <<bronzeVars, customers, wm, storeVars, runVars, histVars>>
    /\ UNCHANGED nonSilverVars

\* ------------------------------------------------------- Silver: operators
NoWatermark == [kind |-> "missing", t |-> 0, updated_at |-> 0]

\* (bug variant: no look-back limit when the watermark cannot be used)
get_watermark_epoch(unreadable) ==
    IF unreadable \/ wm.kind = "missing" THEN 0 ELSE wm.t

\* get_watermark: the stored last_processed; now - 24h when the object does not
\* exist; now - 1h on any other error (unreadable object, corrupt content).
get_watermark(unreadable) ==
    IF unreadable THEN clock - HoursCorrupt
    ELSE IF wm.kind = "missing" THEN clock - HoursFirstRun
    ELSE wm.t

\* (bug variant: a conditional write that never moves the stored time back)
save_watermark_if_later(timestamp) ==
    [kind |-> "valid",
     t |-> IF wm.kind = "valid" /\ wm.t > timestamp THEN wm.t ELSE timestamp,
     updated_at |-> clock]

\* save_watermark: the object written by put_object.
save_watermark(timestamp) ==
    [kind |-> "valid", t |-> timestamp, updated_at |-> clock]

\* (bug variant: the watermark read, moved back by an overlap)
WatermarkToSave_overlap == watermark - HoursCorrupt

\* What lambda_handler hands to save_watermark.
WatermarkToSave == run_start

\* Object keys bronze/<table>/.../<YYYYmmddHHMMSS>_<batch_id>.parquet of one
\* prefix compare by timestamp, then by batch id; a listing returns the keys of
\* a prefix in ascending key order.
KeyLess(a, b) == a.ts < b.ts \/ (a.ts = b.ts /\ a.bid < b.bid)

RECURSIVE SortByKey(_)
SortByKey(S) ==
    IF S = {} THEN <<>>
    ELSE LET m == CHOOSE i \in S : \A j \in S \ {i} : KeyLess(bronze[i], bronze[j])
         IN  <<m>> \o SortByKey(S \ {m})

ListObjects(table) == SortByKey({i \in 1..Len(bronze) : bronze[i].table = table})

\* (bug variant: >= for >)
IsNew_inclusive(obj, since) == obj.lm >= since

\* The filter of scan_bronze_files on one listed object.
IsNew(obj, since) == obj.lm > since

scan_bronze_files(since) ==
    Concat([k \in 1..Len(BRONZE_TABLES) |->
              SelectSeq(ListObjects(BRONZE_TABLES[k]),
                        LAMBDA i : IsNew(bronze[i], since))])

\* read_bronze_files: the records of the files that load, in file order; a file
\* that fails to load (not in loads) contributes nothing.
read_bronze_files(file_keys, loads) ==
    Concat([k \in 1..Len(file_keys) |->
              IF file_keys[k] \in loads THEN bronze[file_keys[k]].recs ELSE <<>>])

\* (bug variant: a placeholder instead of the empty string)
enrich_order_data_unknown(order, lookupErr) ==
    IF order.cust = NoCust \/ lookupErr \/ ~customers[order.cust].present
    THEN [customer_name |-> "unknown", customer_region |-> "unknown"]
    ELSE [customer_name |-> customers[order.cust].Name,
          customer_region |-> customers[order.cust].Region]

\* enrich_order_data: customer_name and customer_region of an order; lookupErr
\* is a get_item call that raises.
enrich_order_data(order, lookupErr) ==
    IF order.cust = NoCust \/ lookupErr \/ ~customers[order.cust].present
    THEN [customer_name |-> "", customer_region |-> ""]
    ELSE [customer_name |-> customers[order.cust].Name,
          customer_region |-> customers[order.cust].Region]

\* (bug variant: the attribute looked up under a key the record does not have)
totalamount_wrong_key(rec) == "0.0"

\* float(enriched.get('TotalAmount', 0)) on what the Bronze record holds
totalamount(rec) == IF rec.TotalAmount = NoAmount THEN "0.0" ELSE Double(rec.TotalAmount)

SilverRow(rec, lookupErr) ==
    LET e == IF rec.table = "orders" THEN enrich_order_data(rec, lookupErr)
             ELSE [customer_name |-> "n/a", customer_region |-> "n/a"]
    IN  [pk |-> rec.pk, val |-> rec.val, cust |-> rec.cust,
         totalamount |-> IF rec.table = "orders" THEN totalamount(rec) ELSE NoAmount,
         customer_name |-> e.customer_name, customer_region |-> e.customer_region,
         event_timestamp |-> rec.ev, processing_timestamp |-> clock]

\* transform_records: per Silver table, the rows of its records in input order.
transform_records(records, errs) ==
    [t \in Tables |->
       LET idx == SelectSeq([i \in 1..Len(records) |-> i],
                            LAMBDA i : records[i].table = t)
       IN  [k \in 1..Len(idx) |-> SilverRow(records[idx[k]], idx[k] \in errs)]]

\* The dict seen of merge_to_iceberg: keys in order of first insertion, each
\* with the record inserted last under it.
Dedup(records) ==
    LET firsts == SelectSeq([i \in 1..Len(records) |-> i],
                            LAMBDA i : \A j \in 1..(i-1) : records[j].pk # records[i].pk)
        last(pk) == Max({i \in 1..Len(records) : records[i].pk = pk})
    IN  [k \in 1..Len(firsts) |-> records[last(records[firsts[k]].pk)]]

\* (bug variant: every staged row is inserted, matched or not)
MERGE_SQL_insert_all(rows, staged) == rows \o staged

\* MERGE_SQL: a target row whose key matches a staged row takes all the staged
\* row's columns; staged rows that match no target row are inserted.
Matches(t, s) == t.pk = s.pk

MERGE_SQL(rows, staged) ==
    LET src(t) == CHOOSE i \in 1..Len(staged) : Matches(t, staged[i])
        upd == [i \in 1..Len(rows) |->
                  IF \E k \in 1..Len(staged) : Matches(rows[i], staged[k])
                  THEN staged[src(rows[i])] ELSE rows[i]]
        ins == SelectSeq(staged, LAMBDA s : \A i \in 1..Len(rows) : ~Matches(rows[i], s))
    IN  upd \o ins

Ok(q) == q = "SUCCEEDED"

\* The outcomes of the calls one merge_to_iceberg makes: the staging put_object,
\* the four queries, the delete_object.  A call that is not reached has no
\* outcome of its own (it is fixed to success here).
MergeOutcomes ==
    {o \in [put : BOOLEAN, create : QueryStates, ensure : QueryStates,
            merge : QueryStates, drop : QueryStates, del : BOOLEAN] :
        /\ (~o.put => Ok(o.create))
        /\ (~Ok(o.create) => Ok(o.ensure))
        /\ (~Ok(o.ensure) => Ok(o.merge))}

B2N(b) == IF b THEN 1 ELSE 0

\* The number of calls that fail under the outcomes o.
FaultsOf(o) ==
    B2N(~o.put) + B2N(~Ok(o.create)) + B2N(~Ok(o.ensure)) + B2N(~Ok(o.merge))
    + B2N(~Ok(o.drop)) + B2N(~o.del)

\* (bug variant: the cleanup at the end of the try body, not in a finally)
CleanupRuns_no_finally(raised) == ~raised

\* Whether the cleanup of merge_to_iceberg runs on an exit path (it is a
\* finally block).
CleanupRuns(raised) == TRUE

\* merge_to_iceberg(table_name, records) under the outcomes o: what the call
\* leaves behind and whether it raises.
merge_to_iceberg(table_name, records, o) ==
    LET deduped  == Dedup(records)
        createOk == o.put /\ Ok(o.create)
        ensureOk == createOk /\ Ok(o.ensure)
        mergeOk  == ensureOk /\ Ok(o.merge)
        cleanup  == CleanupRuns(~mergeOk)
    IN  [raised      |-> ~mergeOk,
         deduped     |-> deduped,
         rows        |-> IF mergeOk THEN MERGE_SQL(target[table_name], deduped)
                         ELSE target[table_name],
         ensured     |-> ensureOk,
         merged      |-> mergeOk,
         issued      |-> (IF o.put THEN <<"CREATE EXTERNAL TABLE">> ELSE <<>>)
                         \o (IF createOk THEN <<"CREATE TABLE IF NOT EXISTS">> ELSE <<>>)
                         \o (IF ensureOk THEN <<"MERGE">> ELSE <<>>)
                         \o (IF cleanup THEN <<"DROP TABLE IF EXISTS">> ELSE <<>>),
         queryFailed |-> \/ o.put /\ ~Ok(o.create)
                         \/ createOk /\ ~Ok(o.ensure)
                         \/ ensureOk /\ ~Ok(o.merge)
                         \/ cleanup /\ ~Ok(o.drop),
         dropTried   |-> cleanup,
         dropOk      |-> cleanup /\ Ok(o.drop),
         delTried    |-> cleanup,
         delOk       |-> cleanup /\ o.del,
         tempLeft    |-> createOk /\ ~(cleanup /\ Ok(o.drop)),
         stagingLeft |-> o.put /\ ~(cleanup /\ o.del)]

\* ------------------------------------------------- Silver: lambda_handler
NoCall == [inv |-> <<0, "none">>, raised |-> FALSE, issued |-> <<>>,
           dropTried |-> FALSE, dropOk |-> FALSE, delTried |-> FALSE, delOk |-> FALSE]

\* The event lambda_handler is invoked with: the scheduler's event, which names
\* no batch, or a notification that lists a batch that has arrived.
NoPayload == <<>>
Events == {NoPayload} \cup {<<i>> : i \in 1..Len(bronze)}

HistInit == [wmBefore |-> NoWatermark, readAt |-> 0, unreadable |-> FALSE,
             event |-> NoPayload,
             nScanned |-> -1, listed |-> {}, skipped |-> {}, errs |-> {},
             attempted |-> <<>>, mergedOk |-> {},
             staged |-> [t \in Tables |-> <<>>], failedAt |-> "none",
             queryFailed |-> FALSE, lastCall |-> NoCall]

\* Every invocation names its staging object and its temporary table by a fresh
\* uuid, so no invocation touches the artifacts of another one.
NoArtifacts == [inv |-> <<0, "none">>, staging |-> FALSE, temp |-> FALSE]

NoData == [t \in Tables |-> <<>>]

\* The first table at or after cur that has records (the loop skips the others);
\* 0 when the loop is over.
NextIdx ==
    LET S == {k \in cur..Len(SilverTables) : silver_data[SilverTables[k]] # <<>>}
    IN  IF S = {} THEN 0 ELSE CHOOSE k \in S : \A j \in S : k <= j

\* (bug variant: the exception is caught and the loop goes on)
AbortsRun_swallowed(raised) == FALSE

\* An exception of merge_to_iceberg is not caught by lambda_handler:
\* the run ends there, and nothing is written on the way out.
AbortsRun(raised) == raised

\* (bug variant: the watermark saved in a finally block)
WatermarkOnRaise_finally == save_watermark(run_start)

WatermarkOnRaise == wm

\* (bug variant: the early return without saving the watermark)
SaveAndReturn_no_save(body) ==
    /\ faults' = faults
    /\ wm' = wm
    /\ result' = body
    /\ pc' = "done"

\* save_watermark(run_start), then return body; put_object may raise.
SaveAndReturn(body) ==
    \E putOk \in BOOLEAN :
        /\ B2N(~putOk) <= Left
        /\ faults' = faults + B2N(~putOk)
        /\ wm' = IF putOk THEN save_watermark(WatermarkToSave) ELSE wm
        /\ result' = IF putOk THEN body ELSE "raised"
        /\ pc' = "done"

\* The early return of lambda_handler when no record was read, after `failed`
\* files failed to load.
ReadNothing(failed) ==
    \E putOk \in BOOLEAN :
        /\ failed + B2N(~putOk) <= Left
        /\ faults' = faults + failed + B2N(~putOk)
        /\ wm' = IF putOk THEN save_watermark(WatermarkToSave) ELSE wm
        /\ result' = IF putOk THEN "No records in files" ELSE "raised"
        /\ pc' = "done"

silver_get_watermark ==
    /\ pc \in {"idle", "done"}
    /\ \E unreadable \in BOOLEAN, event \in Events :
          /\ 1 + B2N(unreadable) <= Left
          /\ faults' = faults + B2N(unreadable)
          /\ watermark' = get_watermark(unreadable)
          /\ hist' = [HistInit EXCEPT !.wmBefore = wm, !.readAt = clock,
                                      !.unreadable = unreadable,
                                      !.event = event]
    /\ pc' = "run_start"
    /\ runNo' = runNo + 1
    /\ run_start' = 0
    /\ new_files' = <<>>
    /\ bronze_records' = <<>>
    /\ silver_data' = NoData
    /\ cur' = 1
    /\ result' = "running"
    /\ UNCHANGED <<clock, bronzeVars, customers, wm, storeVars, mergedAll>>
    /\ UNCHANGED nonSilverVars

silver_run_start ==
    /\ pc = "run_start"
    /\ run_start' = clock
    /\ pc' = "scan"
    /\ UNCHANGED <<clock, bronzeVars, customers, wm, storeVars, runNo, watermark,
                   new_files, bronze_records, silver_data, cur, result, faults,
                   histVars>>
    /\ UNCHANGED nonSilverVars

silver_scan ==
    /\ pc = "scan"
    /\ new_files' = scan_bronze_files(watermark)
    /\ hist' = [hist EXCEPT !.listed = Range(new_files'), !.nScanned = Len(bronze)]
    /\ IF new_files' = <<>>
       THEN SaveAndReturn("No new files")
       ELSE pc' = "read" /\ UNCHANGED <<wm, result, faults>>
    /\ UNCHANGED <<clock, bronzeVars, customers, storeVars, runNo, watermark, run_start,
                   bronze_records, silver_data, cur, mergedAll>>
    /\ UNCHANGED nonSilverVars

silver_read ==
    /\ pc = "read"
    /\ \E loads \in SUBSET Range(new_files) :
       LET failed == Cardinality(Range(new_files) \ loads)
       IN  /\ failed <= Left
           /\ bronze_records' = read_bronze_files(new_files, loads)
           /\ hist' = [hist EXCEPT !.skipped = Range(new_files) \ loads]
           /\ IF bronze_records' = <<>>
              THEN ReadNothing(failed)
              ELSE /\ pc' = "transform"
                   /\ faults' = faults + failed
                   /\ UNCHANGED <<wm, result>>
    /\ UNCHANGED <<clock, bronzeVars, customers, storeVars, runNo, watermark, run_start,
                   new_files, silver_data, cur, mergedAll>>
    /\ UNCHANGED nonSilverVars

\* The records whose enrichment depends on the get_item call succeeding.
Lookups(records) ==
    {i \in 1..Len(records) :
        /\ records[i].table = "orders"
        /\ records[i].cust # NoCust
        /\ customers[records[i].cust].present}

silver_transform ==
    /\ pc = "transform"
    /\ \E errs \in SUBSET Lookups(bronze_records) :
          /\ Cardinality(errs) <= Left
          /\ faults' = faults + Cardinality(errs)
          /\ silver_data' = transform_records(bronze_records, errs)
          /\ hist' = [hist EXCEPT !.errs = errs]
    /\ cur' = 1
    /\ pc' = "merge"
    /\ UNCHANGED <<clock, bronzeVars, customers, wm, storeVars, runNo, watermark,
                   run_start, new_files, bronze_records, result, mergedAll>>
    /\ UNCHANGED nonSilverVars

silver_merge ==
    /\ pc = "merge"
    /\ NextIdx # 0
    /\ LET e == SilverTables[NextIdx]
           inv == <<runNo, e>>
       IN  \E o \in MergeOutcomes :
           LET r == merge_to_iceberg(e, silver_data[e], o)
           IN  /\ FaultsOf(o) <= Left
               /\ faults' = faults + FaultsOf(o)
               /\ target' = [target EXCEPT ![e] = r.rows]
               /\ catalog' = IF r.ensured THEN catalog \cup {e} ELSE catalog
               /\ artifacts' = [inv |-> inv, staging |-> r.stagingLeft,
                                temp |-> r.tempLeft]
               /\ hist' = [hist EXCEPT
                     !.attempted = Append(@, e),
                     !.mergedOk = IF r.merged THEN @ \cup {e} ELSE @,
                     !.staged[e] = r.deduped,
                     !.failedAt = IF r.raised THEN e ELSE @,
                     !.queryFailed = @ \/ r.queryFailed,
                     !.lastCall = [inv |-> inv, raised |-> r.raised,
                                   issued |-> r.issued,
                                   dropTried |-> r.dropTried, dropOk |-> r.dropOk,
                                   delTried |-> r.delTried, delOk |-> r.delOk]]
               /\ mergedAll' = IF r.merged
                               THEN [mergedAll EXCEPT ![e] =
                                       @ \cup {<<silver_data[e][i].pk, silver_data[e][i].val>> :
                                                 i \in 1..Len(silver_data[e])}]
                               ELSE mergedAll
               /\ IF AbortsRun(r.raised)
                  THEN /\ pc' = "done" /\ result' = "raised" /\ cur' = cur
                       /\ wm' = WatermarkOnRaise
                  ELSE /\ pc' = "merge" /\ result' = result /\ cur' = NextIdx + 1
                       /\ wm' = wm
    /\ UNCHANGED <<clock, bronzeVars, customers, runNo, watermark, run_start,
                   new_files, bronze_records, silver_data>>
    /\ UNCHANGED nonSilverVars

silver_finish ==
    /\ pc = "merge"
    /\ NextIdx = 0
    /\ SaveAndReturn("ok")
    /\ UNCHANGED <<clock, bronzeVars, customers, storeVars, runNo, localVars, histVars>>
    /\ UNCHANGED nonSilverVars

\* ------------------------------------------- Silver: two invocations at once
\* Nothing keeps a second invocation of lambda_handler from starting while one
\* is running (no lock, no reserved concurrency in the handler).  Each has its
\* own locals; the bucket, the watermark object and the tables are shared.
\* The Silver actions above are the steps of the invocation that is running;
\* switch hands the processor to the other one, between any two steps.
Invocation ==
    [pc |-> pc, watermark |-> watermark, run_start |-> run_start,
     new_files |-> new_files, bronze_records |-> bronze_records,
     silver_data |-> silver_data, cur |-> cur, result |-> result, hist |-> hist]

NotStarted ==
    [pc |-> "idle", watermark |-> 0, run_start |-> 0, new_files |-> <<>>,
     bronze_records |-> <<>>, silver_data |-> NoData, cur |-> 1,
     result |-> "none", hist |-> HistInit]

switch ==
    /\ other # Invocation
    /\ other' = Invocation
    /\ pc' = other.pc
    /\ watermark' = other.watermark
    /\ run_start' = other.run_start
    /\ new_files' = other.new_files
    /\ bronze_records' = other.bronze_records
    /\ silver_data' = other.silver_data
    /\ cur' = other.cur
    /\ result' = other.result
    /\ hist' = other.hist
    /\ UNCHANGED <<clock, bronzeVars, customers, wm, storeVars, runNo, faults,
                   mergedAll>>
    /\ UNCHANGED <<goldVars, queryVars>>

\* ------------------------------------------------------------------ Gold
\* In SpecGold the silver tables are given by the columns the Gold queries
\* read; rows arrive in them through the Silver MERGE (one row per key).
GOLD_TABLES == <<"daily_sales_by_region", "product_performance", "key_metrics">>
NULL == "NULL"
OrderIds == {"k1", "k2"}
\* customerid and customer_region of an order, as Silver enriches it: two
\* customers of one region.
GoldCust(id) == IF id = "k1" THEN [customerid |-> "c1", customer_region |-> "US-East"]
                ELSE [customerid |-> "c2", customer_region |-> "US-East"]
\* time of day of the order's OrderDate string
OrderTime(id) == IF id = "k1" THEN "09:00:00" ELSE "21:30:00"
\* TotalAmount of the order
OrderAmount(id) == IF id = "k1" THEN 10 ELSE 20
\* OrderDate is written in the producer's local time: against the engine's
\* CURRENT_DATE an order is dated today or, east of the engine, tomorrow.
OrderDayOffsets == {0, 1}
ProductIds == {"p1"}
StockLevels == {5, 60}

OrderRow(id, day) ==
    [orderid |-> id, orderdate |-> <<day, OrderTime(id)>>,
     totalamount |-> OrderAmount(id),
     customerid |-> GoldCust(id).customerid,
     customer_region |-> GoldCust(id).customer_region]

ProductRow(id, stock) ==
    [productid |-> id, name |-> "Widget", price |-> 10, stocklevel |-> stock]

\* MERGE ... ON t.<pk> = s.<pk> of one staged row into a silver table
Upsert(rows, row, pk) == {r \in rows : r[pk] # row[pk]} \cup {row}

\* CAST(date_parse(orderdate, '%Y-%m-%d %H:%i:%s') AS DATE)
OrderDateOf(o) == o.orderdate[1]

RECURSIVE SumAmount(_)
SumAmount(os) == IF os = {} THEN 0
                 ELSE LET o == CHOOSE x \in os : TRUE
                      IN  o.totalamount + SumAmount(os \ {o})

EmptyTable == <<>>
BagOf(S) == [r \in S |-> 1]
BagPlus(A, B) ==
    [r \in DOMAIN A \cup DOMAIN B |->
        (IF r \in DOMAIN A THEN A[r] ELSE 0) + (IF r \in DOMAIN B THEN B[r] ELSE 0)]
Copies(B, r) == IF r \in DOMAIN B THEN B[r] ELSE 0

\* table_exists: any error of get_table counts as "does not exist"
table_exists(table_name, glueErr) == ~glueErr /\ table_name \in gold_catalog

\* WHERE order_date >= CURRENT_DATE - INTERVAL 'REFRESH_DAYS' DAY (DELETE)
DeleteWindow_all(order_date, day) == TRUE
DeleteWindow_strict(order_date, day) == order_date > day - REFRESH_DAYS
DeleteWindow(order_date, day) == order_date >= day - REFRESH_DAYS

\* WHERE CAST(... AS DATE) >= CURRENT_DATE - INTERVAL 'REFRESH_DAYS' DAY (INSERT)
InsertWindow(order_date, day) == order_date >= day - REFRESH_DAYS

\* (bug variant: the DELETE removes nothing)
DailySalesDelete_nothing(rows, day) == rows

DailySalesDelete(rows, day) ==
    [r \in {x \in DOMAIN rows : ~DeleteWindow(x.order_date, day)} |-> rows[r]]

\* The SELECT of refresh_daily_sales_by_region: one row per (date, region)
DailySalesSelect(orders, day, now) ==
    LET src == {o \in orders : /\ InsertWindow(OrderDateOf(o), day)
                               /\ o.customer_region # NULL}
        groups == {<<OrderDateOf(o), o.customer_region>> : o \in src}
        Row(g) == LET os == {o \in src : <<OrderDateOf(o), o.customer_region>> = g}
                  IN  [order_date |-> g[1], region |-> g[2],
                       order_count |-> Cardinality(os),
                       total_revenue |-> SumAmount(os),
                       avg_order_value |-> <<SumAmount(os), Cardinality(os)>>,
                       unique_customers |->
                           Cardinality({o.customerid : o \in os} \ {NULL}),
                       computed_at |-> now]
    IN  BagOf({Row(g) : g \in groups})

StockStatus(stocklevel) == IF stocklevel < 10 THEN "Critical"
                           ELSE IF stocklevel < 50 THEN "Low" ELSE "Good"

\* The SELECT of refresh_product_performance: one row per product row
ProductPerformanceSelect(products, now) ==
    BagOf({[productid |-> p.productid, product_name |-> p.name,
            current_price |-> p.price, current_stock |-> p.stocklevel,
            stock_status |-> StockStatus(p.stocklevel), computed_at |-> now]
           : p \in products})

\* The SELECT of refresh_key_metrics: five rows, UNION ALL
KeyMetricsSelect(orders, day, now) ==
    LET Since(n) == {o \in orders : OrderDateOf(o) >= day - n}
        Today == {o \in orders : OrderDateOf(o) = day}
        M(name, v) == [metric_name |-> name, metric_value |-> v, computed_at |-> now]
    IN  BagOf({M("orders_today", Cardinality(Today)),
               M("revenue_today", SumAmount(Today)),
               M("revenue_7d", SumAmount(Since(7))),
               M("revenue_30d", SumAmount(Since(30))),
               M("revenue_90d", SumAmount(Since(90)))})

\* (bug variant: the full-replace tables are not cleared)
DeleteFrom_window_only(table_name, rows, day) ==
    IF table_name = "daily_sales_by_region" THEN DailySalesDelete(rows, day)
    ELSE rows

\* The DELETE statement of each refresh
DeleteFrom(table_name, rows, day) ==
    IF table_name = "daily_sales_by_region" THEN DailySalesDelete(rows, day)
    ELSE EmptyTable

\* The INSERT ... SELECT statement of each refresh
InsertInto(table_name, rows, day, now) ==
    BagPlus(rows,
            IF table_name = "daily_sales_by_region"
               THEN DailySalesSelect(orders_enriched, day, now)
            ELSE IF table_name = "product_performance"
               THEN ProductPerformanceSelect(products_enriched, now)
            ELSE KeyMetricsSelect(orders_enriched, day, now))

GIdle == [fn |-> 0, step |-> "idle"]
NoRefresh == [ok |-> FALSE, day |-> 0, delDay |-> 0, orders |-> {}, rows |-> EmptyTable]
GHistInit == [before |-> EmptyTable, day0 |-> 0, delDay |-> 0, deleted |-> FALSE,
              inserted |-> FALSE, prev |-> NoRefresh, last |-> NoRefresh]

\* the aggregate rows without computed_at
StripRow(r) == [order_date |-> r.order_date, region |-> r.region,
                order_count |-> r.order_count, total_revenue |-> r.total_revenue,
                avg_order_value |-> r.avg_order_value,
                unique_customers |-> r.unique_customers]
RECURSIVE StripBag(_)
StripBag(B) == IF DOMAIN B = {} THEN EmptyTable
               ELSE LET r == CHOOSE x \in DOMAIN B : TRUE
                        rest == [x \in DOMAIN B \ {r} |-> B[x]]
                    IN  BagPlus([x \in {StripRow(r)} |-> B[r]], StripBag(rest))

\* (bug variant: no except branch, the exception leaves the handler)
GoldFail_uncaught == gpc' = GIdle /\ gresult' = 0

\* The except branch of lambda_handler: statusCode 500
GoldFail == gpc' = GIdle /\ gresult' = 500

\* The events of the behaviour so far, and what is left of the bound.
GoldSpent == changes + dateChanges + invocations
GoldLeft == MaxGoldEvents - GoldSpent

\* CURRENT_DATE moves on, by one day or by several when nothing else happens
\* in between
Midnight ==
    /\ GoldLeft > 0
    /\ \E d \in (today + 1)..MaxDay : today' = d
    /\ dateChanges' = dateChanges + 1
    /\ UNCHANGED <<invocations, orders_enriched, products_enriched, changes, gold,
                   gold_catalog, gpc, gresult, ghist>>
    /\ UNCHANGED nonGoldVars

\* A Silver run merges one order row
orders_merged ==
    /\ GoldLeft > 0
    /\ \E id \in OrderIds, off \in OrderDayOffsets :
          orders_enriched' = Upsert(orders_enriched,
                                    OrderRow(id, today + off), "orderid")
    /\ changes' = changes + 1
    /\ UNCHANGED <<today, dateChanges, invocations, products_enriched, gold, gold_catalog, gpc,
                   gresult, ghist>>
    /\ UNCHANGED nonGoldVars

\* A Silver run merges one product row
products_merged ==
    /\ GoldLeft > 0
    /\ \E id \in ProductIds, stock \in StockLevels :
          products_enriched' = Upsert(products_enriched, ProductRow(id, stock),
                                      "productid")
    /\ changes' = changes + 1
    /\ UNCHANGED <<today, dateChanges, invocations, orders_enriched, gold, gold_catalog, gpc,
                   gresult, ghist>>
    /\ UNCHANGED nonGoldVars

\* lambda_handler is invoked and enters refresh_daily_sales_by_region
gold_lambda_handler ==
    /\ gpc = GIdle
    /\ GoldLeft > 0
    /\ invocations' = invocations + 1
    /\ gpc' = [fn |-> 1, step |-> "ensure"]
    /\ gresult' = 0
    /\ ghist' = [ghist EXCEPT !.before = gold["daily_sales_by_region"],
                              !.day0 = today, !.deleted = FALSE,
                              !.inserted = FALSE]
    /\ UNCHANGED <<today, dateChanges, orders_enriched, products_enriched, changes, gold,
                   gold_catalog>>
    /\ UNCHANGED nonGoldVars

\* ensure_daily_sales_table, ensure_product_performance_table,
\* ensure_key_metrics_table: CREATE TABLE unless table_exists says it exists.
\* CREATE TABLE of a table that exists fails.
ensure_table ==
    /\ gpc.step = "ensure"
    /\ \E glueErr \in BOOLEAN, q \in QueryStates :
       LET t == GOLD_TABLES[gpc.fn] IN
       IF table_exists(t, glueErr)
          THEN /\ q = "SUCCEEDED"
               /\ gpc' = [gpc EXCEPT !.step = "delete"]
               /\ UNCHANGED <<gold_catalog, gresult>>
          ELSE /\ (t \in gold_catalog) => q = "FAILED"
               /\ IF Ok(q)
                     THEN /\ gold_catalog' = gold_catalog \cup {t}
                          /\ gpc' = [gpc EXCEPT !.step = "delete"]
                          /\ UNCHANGED gresult
                     ELSE GoldFail /\ UNCHANGED gold_catalog
    /\ UNCHANGED <<today, dateChanges, invocations, orders_enriched, products_enriched, changes,
                   gold, ghist>>
    /\ UNCHANGED nonGoldVars

\* Step 1 of each refresh: the DELETE statement
delete_step ==
    /\ gpc.step = "delete"
    /\ \E q \in QueryStates :
       LET t == GOLD_TABLES[gpc.fn] IN
       IF Ok(q)
          THEN /\ gold' = [gold EXCEPT ![t] = DeleteFrom(t, @, today)]
               /\ gpc' = [gpc EXCEPT !.step = "insert"]
               /\ ghist' = IF gpc.fn = 1
                              THEN [ghist EXCEPT !.deleted = TRUE, !.delDay = today]
                              ELSE ghist
               /\ UNCHANGED gresult
          ELSE GoldFail /\ UNCHANGED <<gold, ghist>>
    /\ UNCHANGED <<today, dateChanges, invocations, orders_enriched, products_enriched, changes,
                   gold_catalog>>
    /\ UNCHANGED nonGoldVars

\* Step 2 of each refresh: the INSERT statement; after the last refresh the
\* handler returns statusCode 200
insert_step ==
    /\ gpc.step = "insert"
    /\ \E q \in QueryStates :
       LET t == GOLD_TABLES[gpc.fn] IN
       IF Ok(q)
          THEN /\ gold' = [gold EXCEPT ![t] = InsertInto(t, @, today, invocations)]
               /\ IF gpc.fn < Len(GOLD_TABLES)
                     THEN gpc' = [fn |-> gpc.fn + 1, step |-> "ensure"]
                          /\ UNCHANGED gresult
                     ELSE gpc' = GIdle /\ gresult' = 200
               /\ ghist' = IF gpc.fn = 1
                              THEN [ghist EXCEPT
                                      !.inserted = TRUE,
                                      !.prev = ghist.last,
                                      !.last = [ok |-> TRUE, day |-> today,
                                                delDay |-> ghist.delDay,
                                                orders |-> orders_enriched,
                                                rows |-> StripBag(gold'[t])]]
                              ELSE ghist
          ELSE GoldFail /\ UNCHANGED <<gold, ghist>>
    /\ UNCHANGED <<today, dateChanges, invocations, orders_enriched, products_enriched, changes,
                   gold_catalog>>
    /\ UNCHANGED nonGoldVars

\* -------------------------------------------------- execute_athena_query
\* One call of execute_athena_query (the Silver and the Gold copy differ only
\* in the sleep interval): start_query_execution, then up to PollLimit rounds
\* of get_query_execution, test, sleep.
Running == {"QUEUED", "RUNNING"}
AthenaStates == Running \cup {"SUCCEEDED", "FAILED", "CANCELLED"}

\* The states the engine can report at the next poll, given the last one.
LaterStates(state) ==
    IF state = "QUEUED" THEN AthenaStates
    ELSE IF state = "RUNNING" THEN AthenaStates \ {"QUEUED"}
    ELSE {state}

\* (bug variant: CANCELLED is not tested for)
IsFailure_no_cancel(state) == state = "FAILED"

\* elif state in ['FAILED', 'CANCELLED']
IsFailure(state) == state \in {"FAILED", "CANCELLED"}

\* (bug variant: a statement that failed is submitted again)
Retries_failed(state) == IsFailure(state)

\* Whether the helper submits the statement again after the polled state:
\* the loop only returns, raises or sleeps.
Retries(state) == FALSE

\* The caller calls execute_athena_query: start_query_execution, which may
\* raise a client error.
start_query_execution ==
    /\ qpc = "idle"
    /\ effects' = 0
    /\ \E clientErr \in BOOLEAN :
          IF clientErr
             THEN /\ qpc' = "raised" /\ qresult' = "ERROR"
                  /\ submits' = 0 /\ qstate' = "none"
             ELSE /\ qpc' = "poll" /\ qresult' = "none"
                  /\ submits' = 1 /\ qstate' = "QUEUED"
    /\ polls' = 0
    /\ UNCHANGED nonQueryVars

\* One round of the loop: get_query_execution and the tests on the state.
get_query_execution ==
    /\ qpc = "poll"
    /\ polls < PollLimit
    /\ polls' = polls + 1
    /\ \E clientErr \in BOOLEAN, state \in LaterStates(qstate) :
          IF clientErr
             THEN /\ qpc' = "raised" /\ qresult' = "ERROR"
                  /\ UNCHANGED <<qstate, submits, effects>>
             ELSE IF Ok(state)
                THEN /\ qpc' = "returned" /\ qresult' = "SUCCEEDED"
                     /\ qstate' = state
                     /\ effects' = effects + 1
                     /\ UNCHANGED submits
             ELSE IF IsFailure(state) /\ Retries(state)
                THEN /\ qpc' = "sleep" /\ qstate' = "QUEUED"
                     /\ submits' = submits + 1
                     /\ UNCHANGED <<qresult, effects>>
             ELSE IF IsFailure(state)
                THEN /\ qpc' = "raised" /\ qresult' = "FAILED"
                     /\ qstate' = state
                     /\ UNCHANGED <<submits, effects>>
                ELSE /\ qpc' = "sleep" /\ qstate' = state
                     /\ UNCHANGED <<qresult, submits, effects>>
    /\ UNCHANGED nonQueryVars

\* time.sleep between two rounds
sleep ==
    /\ qpc = "sleep"
    /\ qpc' = "poll"
    /\ UNCHANGED <<polls, qstate, submits, qresult, effects>>
    /\ UNCHANGED nonQueryVars

\* The loop is over: raise Exception("Query timeout")
query_timeout ==
    /\ qpc = "poll"
    /\ polls = PollLimit
    /\ qpc' = "raised"
    /\ qresult' = "TIMEOUT"
    /\ UNCHANGED <<polls, qstate, submits, effects>>
    /\ UNCHANGED nonQueryVars

\* The caller has the result of the call and may call again.
query_done ==
    /\ qpc \in {"returned", "raised"}
    /\ qpc' = "idle"
    /\ UNCHANGED <<polls, qstate, submits, qresult, effects>>
    /\ UNCHANGED nonQueryVars

\* The helper never stops a query (no stop_query_execution): a query that was
\* still queued or running when the call raised goes on in the engine and may
\* complete afterwards.  An execution runs its statement once.
engine_completes ==
    /\ qpc \in {"raised", "idle"}
    /\ submits > 0
    /\ qstate \in Running
    /\ effects < submits
    /\ effects' = effects + 1
    /\ UNCHANGED <<qpc, polls, qstate, submits, qresult>>
    /\ UNCHANGED nonQueryVars

Init ==
    /\ clock = 0
    /\ bronze = <<>>
    /\ source = {}
    /\ received = 0
    /\ blast = NoInvocation
    /\ customers \in [CustIds -> CustItems \cup {NoItem}]
    /\ wm = NoWatermark
    /\ target = [t \in Tables |-> <<>>]
    /\ catalog = {}
    /\ artifacts = NoArtifacts
    /\ pc = "idle"
    /\ runNo = 0
    /\ watermark = 0
    /\ run_start = 0
    /\ new_files = <<>>
    /\ bronze_records = <<>>
    /\ silver_data = NoData
    /\ cur = 1
    /\ result = "none"
    /\ faults = 0
    /\ hist = HistInit
    /\ mergedAll = [t \in Tables |-> {}]
    /\ today = 0
    /\ dateChanges = 0
    /\ invocations = 0
    /\ orders_enriched = {}
    /\ products_enriched = {}
    /\ changes = 0
    /\ gold = [t \in Range(GOLD_TABLES) |-> EmptyTable]
    /\ gold_catalog = {}
    /\ gpc = GIdle
    /\ gresult = 0
    /\ ghist = GHistInit
    /\ qpc = "idle"
    /\ polls = 0
    /\ qstate = "none"
    /\ submits = 0
    /\ qresult = "none"
    /\ effects = 0
    /\ other = NotStarted

Next ==
    \/ Tick
    \/ bronze_lambda_handler
    \/ silver_get_watermark
    \/ silver_run_start
    \/ silver_scan
    \/ silver_read
    \/ silver_transform
    \/ silver_merge
    \/ silver_finish

Spec == Init /\ [][Next]_vars

NextGold ==
    \/ Midnight
    \/ orders_merged
    \/ products_merged
    \/ gold_lambda_handler
    \/ ensure_table
    \/ delete_step
    \/ insert_step

SpecGold == Init /\ [][NextGold]_vars

NextQuery ==
    \/ start_query_execution
    \/ get_query_execution
    \/ sleep
    \/ query_timeout
    \/ query_done
    \/ engine_completes

\* The handler's thread runs on: a step that can be taken is taken.
SpecQuery == Init /\ [][NextQuery]_vars /\ WF_vars(NextQuery)

NextOverlap ==
    \/ Next
    \/ switch

SpecOverlap == Init /\ [][NextOverlap]_vars

\* ------------------------------------------------------ Silver: properties
ReturnBodies == {"ok", "No new files", "No records in files"}

\* The run has returned normally, which it does only after save_watermark.
Saved == pc = "done" /\ result \in ReturnBodies

Last(s) == s[Len(s)]

Strip(rows) ==
    [i \in 1..Len(rows) |-> [rows[i] EXCEPT !.processing_timestamp = 0]]

C2_WatermarkMonotone ==
    hist.wmBefore.kind = "valid" =>
        /\ wm.kind = "valid"
        /\ wm.t >= hist.wmBefore.t

C2_Witness ==
    /\ Saved
    /\ hist.wmBefore.kind = "valid"
    /\ wm.t > hist.wmBefore.t

\* C3: after a run that returned normally, running scan, read, transform and
\* merge again over the same watermark window, with the same files loading and
\* the same enrichment answers, leaves every target table with the same rows,
\* processing_timestamp ignored.
Rerun(t) ==
    LET files == scan_bronze_files(watermark)
        recs  == read_bronze_files(files, hist.listed \ hist.skipped)
        data  == transform_records(recs, hist.errs)
    IN  MERGE_SQL(target[t], Dedup(data[t]))

C3_RerunIsIdempotent ==
    (pc = "done" /\ result = "ok" /\ scan_bronze_files(watermark) = new_files)
        => \A t \in Tables : Strip(Rerun(t)) = Strip(target[t])

C3_Witness ==
    /\ pc = "done" /\ result = "ok"
    /\ scan_bronze_files(watermark) = new_files
    /\ \E t \in Tables :
          /\ target[t] # <<>>
          /\ Rerun(t) # target[t]
          /\ Strip(Rerun(t)) = Strip(target[t])

\* C4 (as claimed): for every table and every key among the records handed to
\* merge_to_iceberg, exactly one record with that key is staged, and it is the
\* one captured last among them.
C4_StagedIsLastCaptured ==
    \A t \in Tables : t \in Range(hist.attempted) =>
        \A i \in 1..Len(silver_data[t]) :
            LET pk == silver_data[t][i].pk
                st == {k \in 1..Len(hist.staged[t]) : hist.staged[t][k].pk = pk}
            IN  /\ Cardinality(st) = 1
                /\ \A k \in st :
                      hist.staged[t][k].val =
                        Max({silver_data[t][j].val : j \in
                               {n \in 1..Len(silver_data[t]) : silver_data[t][n].pk = pk}})

\* C5 (as claimed): a batch that was listed but failed to load stays visible:
\* the watermark stored when the run returns is earlier than the batch's
\* LastModified, so that the next scan lists it again.
C5_SkippedBatchStaysVisible ==
    Saved => \A f \in hist.skipped : IsNew(bronze[f], wm.t)

C7_AbortKeepsEarlierMerges ==
    hist.failedAt # "none" =>
        /\ pc = "done" /\ result = "raised"
        /\ Last(hist.attempted) = hist.failedAt
        /\ \A k \in 1..Len(SilverTables) :
              (\E j \in 1..(k-1) : SilverTables[j] = hist.failedAt)
                  => SilverTables[k] \notin Range(hist.attempted)
        /\ \A t \in hist.mergedOk : Range(hist.staged[t]) \subseteq Range(target[t])

C7_Witness ==
    /\ hist.failedAt # "none"
    /\ hist.mergedOk # {}
    /\ \E t \in hist.mergedOk : target[t] # <<>>

\* C8 (as claimed): every target table holds at most one row per key, and the
\* row has the values of the most recently captured change among the changes
\* of that key merged so far.
C8_RowIsLatestMerged ==
    \A t \in Tables :
        /\ \A i, j \in 1..Len(target[t]) :
              target[t][i].pk = target[t][j].pk => i = j
        /\ \A i \in 1..Len(target[t]) :
              target[t][i].val =
                Max({m[2] : m \in {x \in mergedAll[t] : x[1] = target[t][i].pk}})

\* -------------------------------------------------------- Gold: properties
DailySales == gold["daily_sales_by_region"]
RowsSeen == DOMAIN ghist.before \cup DOMAIN DailySales
SameCopies(r) == Copies(DailySales, r) = Copies(ghist.before, r)

C10_RefreshTwiceSameRows ==
    /\ \A r1, r2 \in DOMAIN DailySales :
          (r1.order_date = r2.order_date /\ r1.region = r2.region)
             => (r1 = r2 /\ DailySales[r1] = 1)
    /\ ( /\ ghist.prev.ok /\ ghist.last.ok
         /\ ghist.prev.delDay = ghist.prev.day /\ ghist.last.delDay = ghist.last.day
         /\ ghist.prev.day = ghist.last.day
         /\ ghist.prev.orders = ghist.last.orders )
       => ghist.prev.rows = ghist.last.rows

\* Two successful refreshes on one date over the same non-empty aggregate.
C10_Witness ==
    /\ ghist.prev.ok /\ ghist.last.ok
    /\ ghist.prev.delDay = ghist.prev.day /\ ghist.last.delDay = ghist.last.day
    /\ ghist.prev.day = ghist.last.day
    /\ ghist.prev.orders = ghist.last.orders
    /\ ghist.last.rows # EmptyTable
    /\ \E r \in DOMAIN DailySales : r.computed_at = invocations /\ invocations > 1

\* ------------------------------------------- execute_athena_query: properties
Ended == qpc \in {"returned", "raised"}

QueryEndsAsPolled ==
    /\ polls <= PollLimit
    /\ submits <= 1
    /\ qstate = "SUCCEEDED" => (qpc \in {"returned", "idle"} /\ qresult = "SUCCEEDED")
    /\ qstate \in {"FAILED", "CANCELLED"} => (qpc \in {"raised", "idle"} /\ qresult = "FAILED")
    /\ qresult = "SUCCEEDED" => qstate = "SUCCEEDED"
    /\ qresult = "TIMEOUT" => (polls = PollLimit /\ qstate \in Running)
    /\ (Ended /\ qresult # "SUCCEEDED") => qpc = "raised"

\* C11: every call of execute_athena_query ends: it returns once the polled
\* state is SUCCEEDED, raises once it is FAILED or CANCELLED, and raises a
\* timeout after PollLimit polls at the latest; a timeout leaves the call by
\* raising, like a failure.
C11_QueryCallEnds ==
    /\ []QueryEndsAsPolled
    /\ (qpc \in {"poll", "sleep"}) ~> Ended

\* A call has raised the timeout after PollLimit polls.
C11_Witness == qpc = "raised" /\ qresult = "TIMEOUT" /\ polls = PollLimit

\* ---------------------------------------------------- Silver: properties (2)
\* A run is past get_watermark.
HasWatermark == pc \notin {"idle"}

\* C12: get_watermark always returns: now - 24h when there is no watermark
\* object, now - 1h when the object cannot be read or parsed, and the stored
\* last_processed otherwise; the run goes on in each case.
C12_GetWatermarkAlwaysReturns ==
    /\ pc = "run_start" => result = "running"
    /\ HasWatermark =>
          watermark = IF hist.unreadable THEN hist.readAt - HoursCorrupt
                      ELSE IF hist.wmBefore.kind = "missing"
                              THEN hist.readAt - HoursFirstRun
                              ELSE hist.wmBefore.t

\* A run has read a stored watermark that it could not use, at a time when
\* the fallback differs from the stored value.
C12_Witness ==
    /\ pc = "run_start"
    /\ hist.unreadable
    /\ hist.wmBefore.kind = "valid"
    /\ watermark # hist.wmBefore.t

\* Every record of batch i was handed to a merge_to_iceberg call whose MERGE
\* succeeded.
BatchMerged(i) ==
    \A k \in 1..Len(bronze[i].recs) :
        <<bronze[i].recs[k].pk, bronze[i].recs[k].val>> \in mergedAll[bronze[i].table]

\* C13 (as claimed): when get_watermark has returned, every batch that no
\* successful merge has taken yet has a LastModified after the returned value
\* (so the scan of this run lists it), also when the value is a fallback.
C13_WatermarkBeforeUnreadData ==
    pc = "run_start" =>
        \A i \in 1..Len(bronze) : ~BatchMerged(i) => bronze[i].lm > watermark

\* The batches that were in the bucket when the run scanned it.
AtScan == 1..hist.nScanned

\* C14: scan_bronze_files(since) returns, each once, exactly the batches of
\* the three prefixes whose LastModified is greater than since; a batch whose
\* LastModified equals since is not returned.
C14_ScanReturnsNewerBatches ==
    hist.nScanned >= 0 =>
        /\ Range(new_files) = {i \in AtScan : bronze[i].lm > watermark}
        /\ Len(new_files) = Cardinality(Range(new_files))

\* A scan has passed over a batch whose LastModified equals since.
C14_Witness ==
    /\ hist.nScanned >= 0
    /\ \E i \in AtScan : bronze[i].lm = watermark /\ i \notin Range(new_files)

\* ------------------------------------------------------- Bronze: properties
Keys(rows) == {rows[i].pk : i \in 1..Len(rows)}

NoRemoveCaptured ==
    \A i \in 1..Len(bronze) : \A k \in 1..Len(bronze[i].recs) :
        bronze[i].recs[k].event_name \in {"INSERT", "MODIFY"}

\* C15: no REMOVE record is ever written to a Bronze batch, and no step takes
\* a primary key out of a target table.
C15_NeverRemoves ==
    /\ []NoRemoveCaptured
    /\ [][\A t \in Tables : Keys(target[t]) \subseteq Keys(target'[t])]_vars

\* An item was merged, then deleted at the source; its row is still there.
C15_Witness ==
    \E t \in Tables : \E k \in Keys(target[t]) : <<t, k>> \notin source

\* C16 (as claimed): when an invocation holds a record of an unrecognized
\* shape, the well-formed records of the invocation are still written.
C16_MalformedRecordIsSkipped == blast.bad => blast.wrote = blast.kept

\* ---------------------------------------------------- Silver: properties (3)
\* The positions of the order records in bronze_records, in order.
OrderIdx == SelectSeq([i \in 1..Len(bronze_records) |-> i],
                      LAMBDA i : bronze_records[i].table = "orders")

\* The lookup for record i found no customer.
LookupMiss(i) ==
    \/ bronze_records[i].cust = NoCust
    \/ i \in hist.errs
    \/ ~customers[bronze_records[i].cust].present

Transformed == pc \in {"merge", "done"} /\ silver_data # NoData

InTarget(t, row) == \E j \in 1..Len(target[t]) : target[t][j] = row

\* C17: every order record read by a run gets its row, whatever the lookup
\* gives; the row of an order whose lookup found no customer has
\* customer_name = "" and customer_region = ""; and once the MERGE of orders
\* has succeeded, every staged row is in orders_enriched as staged.
C17_LookupMissKeepsOrder ==
    Transformed =>
        /\ Len(silver_data["orders"]) = Len(OrderIdx)
        /\ \A k \in 1..Len(OrderIdx) :
              LET row == silver_data["orders"][k]
                  rec == bronze_records[OrderIdx[k]]
              IN  /\ row.pk = rec.pk /\ row.val = rec.val
                  /\ LookupMiss(OrderIdx[k]) =>
                        (row.customer_name = "" /\ row.customer_region = "")
        /\ "orders" \in hist.mergedOk =>
              /\ hist.staged["orders"] = Dedup(silver_data["orders"])
              /\ \A k \in 1..Len(hist.staged["orders"]) :
                    InTarget("orders", hist.staged["orders"][k])

\* A run has merged an order that names a customer, and the lookup found none.
C17_Witness ==
    /\ pc = "done" /\ result = "ok"
    /\ "orders" \in hist.mergedOk
    /\ \E k \in 1..Len(OrderIdx) :
          /\ LookupMiss(OrderIdx[k])
          /\ bronze_records[OrderIdx[k]].cust # NoCust
          /\ InTarget("orders", silver_data["orders"][k])
          /\ silver_data["orders"][k].customer_region = ""

\* Order record i is the one merge_to_iceberg stages for its OrderID: no later
\* order record of the run has the same key.
StagedRecord(i) ==
    \A j \in (i+1)..Len(bronze_records) :
        bronze_records[j].table = "orders" => bronze_records[j].pk # bronze_records[i].pk

\* Order record i is an INSERT whose customer the lookup returned.
InsertWithCustomer(i) ==
    /\ bronze_records[i].table = "orders"
    /\ bronze_records[i].event_name = "INSERT"
    /\ ~LookupMiss(i)

RowsOf(t, pk) == {j \in 1..Len(target[t]) : target[t][j].pk = pk}

\* C18: once the run has merged orders, every INSERT of an order whose
\* customer the lookup returned has exactly one row under its OrderID; when the
\* INSERT is the change staged for that OrderID, the row has the customer's
\* Region as customer_region and the double of the order's TotalAmount as
\* totalamount.
C18_InsertedOrderIsEnriched ==
    (Transformed /\ "orders" \in hist.mergedOk) =>
        \A i \in 1..Len(bronze_records) :
            InsertWithCustomer(i) =>
                LET rec == bronze_records[i] IN
                /\ Cardinality(RowsOf("orders", rec.pk)) = 1
                /\ StagedRecord(i) =>
                      \A j \in RowsOf("orders", rec.pk) :
                          /\ target["orders"][j].val = rec.val
                          /\ target["orders"][j].customer_region
                                = customers[rec.cust].Region
                          /\ target["orders"][j].totalamount
                                = Double(OrderAmountN(rec.pk))

\* A run has merged the INSERT of an order whose customer is in the store.
C18_Witness ==
    /\ pc = "done" /\ result = "ok"
    /\ "orders" \in hist.mergedOk
    /\ \E i \in 1..Len(bronze_records) :
          /\ InsertWithCustomer(i) /\ StagedRecord(i)
          /\ \E j \in RowsOf("orders", bronze_records[i].pk) :
                target["orders"][j].customer_region = "US-East"
                /\ target["orders"][j].totalamount = "42.5"
\* ---------------------------------------------------------------------
\* C19: the Silver orchestrator always returns a structured result: when a
\* run has ended it has returned one of its bodies (the counts on success)
\* or an error result; it never ends by an exception leaving the handler.
C19_AlwaysStructuredResult ==
    pc = "done" => result \in ReturnBodies \cup {"error"}

\* ---------------------------------------------------------------------
\* Every listing returns the batches of a table in the order they were
\* captured (no two batches of one second with their ids in reverse order).
ListedInCaptureOrder ==
    \A a, b \in 1..Len(bronze) :
        (bronze[a].table = bronze[b].table /\ a < b) => KeyLess(bronze[a], bronze[b])

NoRunInProgress == pc \in {"idle", "done"} /\ other.pc \in {"idle", "done"}

\* C20 (as claimed): overlapping Silver runs are safe for the merge step: once
\* both invocations have finished, no call having failed and every listing in
\* capture order, each target row holds the most recently captured change among
\* the changes of its key that were merged, as after runs one after the other.
C20_OverlapKeepsLatest ==
    (NoRunInProgress /\ faults = 0 /\ ListedInCaptureOrder) =>
        \A t \in Tables : \A i \in 1..Len(target[t]) :
            target[t][i].val =
                Max({m[2] : m \in {x \in mergedAll[t] : x[1] = target[t][i].pk}})

\* ---------------------------------------------------------------------
\* C21: with two overlapping Silver runs the watermark write is last writer
\* wins: every write of the watermark object stores the start time of the run
\* that writes, whatever is stored at that moment.  The witness is the
\* interleaving in which the stored time ends lower than one stored earlier:
\* both invocations have saved, the one that started later saved first.
C21_LastWriterWins ==
    [][wm' # wm => (wm'.kind = "valid" /\ wm'.t = run_start)]_vars

C21_Witness ==
    /\ pc = "done" /\ result \in ReturnBodies
    /\ other.pc = "done" /\ other.result \in ReturnBodies
    /\ wm.t = run_start
    /\ other.run_start > wm.t

\* ---------------------------------------------------------------------
\* C22 (as claimed): invoked with a list of newly arrived batch locations, the
\* run processes those batches: once it has scanned, no call having failed,
\* every batch the event lists is among the files it goes on to read.
C22_ListedBatchesAreProcessed ==
    (hist.event # NoPayload /\ hist.nScanned >= 0 /\ faults = 0) =>
        Range(hist.event) \subseteq hist.listed

\* ---------------------------------------------------------------------
\* The orders the INSERT of the latest delta refresh counts for a date
Qualifying(order_date) ==
    {o \in ghist.last.orders :
        OrderDateOf(o) = order_date /\ o.customer_region # NULL}

\* C23 (as claimed): the DELETE and the INSERT of one delta refresh work on the
\* same window of dates, also when the date changes (by one day) between them:
\* after both have succeeded, every date of which the DELETE removed a row and
\* that has qualifying orders has an aggregate row again.
C23_DeletedDatesAreReinserted ==
    (ghist.inserted /\ ghist.last.day <= ghist.delDay + 1) =>
        \A r \in DOMAIN ghist.before :
            (DeleteWindow(r.order_date, ghist.delDay) /\ Qualifying(r.order_date) # {})
                => \E x \in DOMAIN DailySales : x.order_date = r.order_date

\* ---------------------------------------------------------------------
\* The INSERT of refresh number fn succeeds in this step
InsertSucceeds(fn) ==
    /\ gpc = [fn |-> fn, step |-> "insert"]
    /\ IF fn < Len(GOLD_TABLES) THEN gpc'.fn = fn + 1 ELSE gresult' = 200

MetricNames == {"orders_today", "revenue_today", "revenue_7d", "revenue_30d",
                "revenue_90d"}

\* C24: when the INSERT of a full-replace refresh succeeds, the aggregate
\* table holds the rows computed by this refresh from the entity table as it
\* is, and no row of an earlier refresh: product_performance one row per row of
\* products_enriched, key_metrics one row per metric.
C24_FullReplaceIsExact ==
    [][/\ InsertSucceeds(2) =>
            LET T == gold'["product_performance"] IN
            /\ \A r \in DOMAIN T :
                  /\ T[r] = 1
                  /\ r.computed_at = invocations
                  /\ \E p \in products_enriched :
                        /\ r.productid = p.productid
                        /\ r.product_name = p.name
                        /\ r.current_price = p.price
                        /\ r.current_stock = p.stocklevel
            /\ \A p \in products_enriched :
                  Cardinality({r \in DOMAIN T : r.productid = p.productid}) = 1
       /\ InsertSucceeds(3) =>
            LET T == gold'["key_metrics"] IN
            /\ \A r \in DOMAIN T : T[r] = 1 /\ r.computed_at = invocations
            /\ \A n \in MetricNames :
                  Cardinality({r \in DOMAIN T : r.metric_name = n}) = 1
            /\ \A r \in DOMAIN T :
                  /\ r.metric_name \in MetricNames
                  /\ r.metric_name = "orders_today" =>
                        r.metric_value =
                          Cardinality({o \in orders_enriched : OrderDateOf(o) = today})
      ]_vars

C24_Witness ==
    /\ gpc = GIdle /\ gresult = 200 /\ invocations >= 2
    /\ ghist.prev.ok
    /\ products_enriched # {}
    /\ \A r \in DOMAIN gold["product_performance"] : r.computed_at = invocations
    /\ \A r \in DOMAIN gold["key_metrics"] : r.computed_at = invocations

\* ---------------------------------------------------------------------
\* The rows of the table being refreshed that lie in the window of its DELETE
InDeletedWindow ==
    LET t == GOLD_TABLES[gpc.fn] IN
    {r \in DOMAIN gold[t] :
        t = "daily_sales_by_region" => DeleteWindow(r.order_date, ghist.delDay)}

\* C25: each refresh takes its steps in the order ensure, DELETE, INSERT, a
\* step only after the one before it succeeded, and there is no transaction:
\* between the DELETE and the INSERT the deleted window is empty, and an INSERT
\* that fails leaves the table as the DELETE left it; the aggregate tables
\* change in no other step.
C25_StepsInOrderNoRollback ==
    [][/\ gpc' # gpc =>
            \/ gpc = GIdle /\ gpc' = [fn |-> 1, step |-> "ensure"]
            \/ gpc.step = "ensure" /\ gpc' \in {[gpc EXCEPT !.step = "delete"], GIdle}
            \/ gpc.step = "delete" /\ gpc' \in {[gpc EXCEPT !.step = "insert"], GIdle}
            \/ gpc.step = "insert" /\ gpc' \in {[fn |-> gpc.fn + 1, step |-> "ensure"], GIdle}
       /\ gpc.step = "insert" => InDeletedWindow = {}
       /\ (gpc.step = "insert" /\ gresult' = 500) => gold' = gold
       /\ gold' # gold => gpc.step \in {"delete", "insert"}
      ]_vars

C25_Witness ==
    /\ gpc = GIdle /\ gresult = 500
    /\ ghist.deleted /\ ~ghist.inserted
    /\ \E r \in DOMAIN ghist.before : DeleteWindow(r.order_date, ghist.delDay)
    /\ \A r \in DOMAIN DailySales : ~DeleteWindow(r.order_date, ghist.delDay)

\* ---------------------------------------------------------------------
\* C26 (as claimed): the ensure step of a refresh whose aggregate table exists
\* leaves the table and the catalog as they are and goes on to the DELETE; it
\* never makes the refresh fail, whatever the existence check answers.
C26_EnsureOfExistingTableSucceeds ==
    [][(gpc.step = "ensure" /\ GOLD_TABLES[gpc.fn] \in gold_catalog /\ gpc' # gpc)
          => /\ gpc' = [gpc EXCEPT !.step = "delete"]
             /\ gold' = gold
             /\ gold_catalog' = gold_catalog
      ]_vars

\* ---------------------------------------------------------------------
\* The number of statements of a call that are the statement q
Issued(call, q) == Cardinality({k \in 1..Len(call.issued) : call.issued[k] = q})

\* C27: merge_to_iceberg is called at most once per table in a run and issues
\* at most one MERGE, as its third statement, after the staging write, the
\* CREATE EXTERNAL TABLE and the CREATE TABLE IF NOT EXISTS; a MERGE that
\* succeeds leaves every staged row in the target with all its columns, instead
\* of the row of the same key when there was one, and leaves the rows of other
\* keys as they were; without a successful MERGE the target is unchanged.
C27_OneMergeAfterPreparation ==
    [][(pc = "merge" /\ hist'.attempted # hist.attempted) =>
          LET e    == Last(hist'.attempted)
              call == hist'.lastCall
              st   == hist'.staged[e]
              old  == target[e]
              new  == target'[e]
              matched(r) == \E k \in 1..Len(st) : st[k].pk = r.pk
          IN  /\ e \notin Range(hist.attempted)
              /\ Issued(call, "MERGE") <= 1
              /\ Issued(call, "MERGE") = 1 =>
                    /\ SubSeq(call.issued, 1, 3) =
                          <<"CREATE EXTERNAL TABLE", "CREATE TABLE IF NOT EXISTS", "MERGE">>
                    /\ e \in catalog'
              /\ e \in hist'.mergedOk => Issued(call, "MERGE") = 1
              /\ IF e \in hist'.mergedOk
                  THEN /\ \A k \in 1..Len(st) :
                            /\ \E j \in 1..Len(new) : new[j] = st[k]
                            /\ \A j \in 1..Len(new) : new[j].pk = st[k].pk => new[j] = st[k]
                       /\ \A j \in 1..Len(old) :
                            IF matched(old[j]) THEN new[j].pk = old[j].pk
                            ELSE new[j] = old[j]
                       /\ Len(new) = Len(old)
                            + Cardinality({k \in 1..Len(st) :
                                 \A j \in 1..Len(old) : old[j].pk # st[k].pk})
                  ELSE new = old
      ]_vars

C27_Witness ==
    /\ pc \in {"merge", "done"}
    /\ \E e \in hist.mergedOk :
          /\ Last(hist.attempted) = e
          /\ Issued(hist.lastCall, "MERGE") = 1
          /\ Len(hist.staged[e]) = 2
          /\ Len(silver_data[e]) > 2
          /\ Range(hist.staged[e]) \subseteq Range(target[e])

\* ---------------------------------------------------------------------
\* C28 (as claimed): a run that read the stored watermark and stored its own
\* start time leaves no batch behind: every batch later than the watermark the
\* run started from, and not later than the one it stored, was listed by its
\* scan.
C28_NoBatchBehindTheWatermark ==
    (Saved /\ ~hist.unreadable) =>
        \A i \in 1..Len(bronze) :
            (IsNew(bronze[i], watermark) /\ ~IsNew(bronze[i], wm.t))
                => i \in hist.listed

\* ---------------------------------------------------------------------
\* C29: a run that finds no new file, or reads no record from the files it
\* found, calls merge_to_iceberg for no table and stores its start time as the
\* watermark before it returns (when the put_object of save_watermark raises,
\* the run ends with that exception and the watermark is as it was).
C29_EmptyRunAdvancesWatermark ==
    (pc = "done" /\ (new_files = <<>> \/ bronze_records = <<>>)) =>
        /\ hist.attempted = <<>>
        /\ hist.mergedOk = {}
        /\ hist.lastCall = NoCall
        /\ result \in {IF new_files = <<>> THEN "No new files"
                        ELSE "No records in files", "raised"}
        /\ result # "raised" => (wm.kind = "valid" /\ wm.t = run_start)
        /\ result = "raised" => wm = hist.wmBefore

C29_Witness ==
    /\ pc = "done"
    /\ new_files # <<>> /\ bronze_records = <<>>
    /\ result = "No records in files"
    /\ hist.wmBefore.kind = "missing"
    /\ wm.kind = "valid" /\ wm.t = run_start /\ run_start > watermark
    /\ target = [t \in Tables |-> <<>>]

\* ---------------------------------------------------------------------
\* C30: the Gold handler always ends by returning a status: it takes the
\* refreshes in the order daily_sales_by_region, product_performance,
\* key_metrics, returns 200 only from the INSERT of the last one succeeding,
\* and at the first step that fails returns 500 in that step, changing no
\* table and starting no further refresh.
C30_GoldHandlerReturnsStatus ==
    [][/\ (gpc # GIdle /\ gpc' = GIdle) => gresult' \in {200, 500}
       /\ (gpc # GIdle /\ gresult' = 200) => InsertSucceeds(Len(GOLD_TABLES))
       /\ (gpc # GIdle /\ gresult' = 500) =>
             /\ gpc' = GIdle
             /\ gold' = gold
             /\ gold_catalog' = gold_catalog
       /\ (gpc # GIdle /\ gpc' # GIdle) =>
             /\ gresult' = 0
             /\ gpc'.fn \in {gpc.fn, gpc.fn + 1}
             /\ gpc'.fn = gpc.fn + 1 => InsertSucceeds(gpc.fn)
       /\ (gpc = GIdle /\ gpc' # GIdle) => gpc'.fn = 1
       /\ (gpc = GIdle /\ gresult = 500) =>
             \A r \in DOMAIN gold["key_metrics"] : r.computed_at # invocations
      ]_vars

C30_Witness ==
    /\ gpc = GIdle /\ gresult = 500
    /\ ghist.inserted
    /\ DailySales # EmptyTable
    /\ gold["product_performance"] # EmptyTable
    /\ gold["key_metrics"] = EmptyTable

\* ---------------------------------------------------------------------
\* C31: execute_athena_query submits its statement once per call and never
\* again: start_query_execution is called only at the start of the call, a
\* call that is polling or has ended after polling has one submission, and
\* nothing is submitted after a failure or a timeout; so the statement takes
\* effect at most once per call (also when it completes after the call gave
\* up on it).
C31_SubmittedOnce ==
    /\ [](/\ submits <= 1
          /\ effects <= submits
          /\ qpc \in {"poll", "sleep", "returned"} => submits = 1
          /\ qresult \in {"SUCCEEDED", "FAILED", "TIMEOUT"} => submits = 1
          /\ qresult = "SUCCEEDED" => effects = 1)
    /\ [][submits' # submits => qpc = "idle"]_vars

\* A call raised the timeout, and the query it left running has completed.
C31_Witness ==
    /\ qpc = "raised" /\ qresult = "TIMEOUT"
    /\ submits = 1 /\ effects = 1

====
